---------------------------- MODULE Spec2Model ----------------------------
(***************************************************************************)
(* Model of queue.c: a queue of strings kept as a circular doubly-linked   *)
(* intrusive list (struct list_head) hanging off a sentinel node.          *)
(*                                                                         *)
(* Memory is a small heap of cells.  Cell 0 is the cell malloc returns for *)
(* the sentinel allocated by q_new; cells 1..K are the cells malloc        *)
(* returns for element_t allocations.  Every cell has the two link fields  *)
(* next/prev and, for elements, the owned string buffer `value`.           *)
(***************************************************************************)
EXTENDS Integers, Sequences, FiniteSets, TLC

VARIABLES
    head,      \* the caller's queue handle: NULL or the sentinel cell
    next,      \* next[n]: the list_head.next field of cell n
    prev,      \* prev[n]: the list_head.prev field of cell n
    value,     \* value[n]: content of the string buffer of element n
    live,      \* cells currently allocated (malloc'ed and not freed)
    strLive,   \* elements whose string buffer is currently allocated
    oob,       \* elements whose string buffer was written past its capacity
    fault,     \* memory errors committed so far: frees and accesses of dead cells
    held,      \* elements handed to the caller by q_remove_head/q_remove_tail
    inserts,   \* calls since q_new while they were successful inserts only
    last,      \* the last call: name, arguments, result, state before it
    run        \* the call in progress when calls are followed step by step

vars == <<head, next, prev, value, live, strLive, oob, fault, held, inserts,
          last, run>>

-----------------------------------------------------------------------------
(* Bounds *)

\* Number of element cells the heap of the main specification can hand out.
MaxNodes == 3

\* Number of element cells of the scenario specification.
ScenarioNodes == 6

\* Longest ring drawn as input of the transform specification.
MaxLen == 4

\* Number of element cells of the string buffer specification.
BufNodes == 2

\* Number of element cells of the specification of sort before delete_dup.
FruitNodes == 4

\* Largest output buffer passed to q_remove_head and q_remove_tail.
MaxBuf == 9

-----------------------------------------------------------------------------
(* Program constants *)

\* sizeof(size_t): the argument of malloc for the string buffer.
SizeofSizeT == 8

NULL == -1

\* The sentinel cell.
Sentinel == 0

-----------------------------------------------------------------------------
(* Strings: sequences of non-zero bytes; the terminator is implicit. *)

strlen(s) == Len(s)

\* Byte i (1-based) of the null-terminated string s.
ByteAt(s, i) == IF i <= Len(s) THEN s[i] ELSE 0

RECURSIVE strcmp_from(_, _, _)
strcmp_from(a, b, i) ==
    IF ByteAt(a, i) # ByteAt(b, i) THEN ByteAt(a, i) - ByteAt(b, i)
    ELSE IF ByteAt(a, i) = 0 THEN 0
    ELSE strcmp_from(a, b, i + 1)

strcmp(a, b) == strcmp_from(a, b, 1)

\* The first k bytes of s (all of s when it is shorter).
Prefix(s, k) == SubSeq(s, 1, IF k < Len(s) THEN k ELSE Len(s))

-----------------------------------------------------------------------------
(* The heap as a value: what the handlers read and write. *)

Mem == [next |-> next, prev |-> prev, value |-> value,
        live |-> live, strLive |-> strLive, oob |-> oob, fault |-> fault]

Cells(m) == DOMAIN m.next

\* malloc(sizeof(element_t)): the lowest free element cell, NULL if none.
FreeCells(m) == (Cells(m) \ {Sentinel}) \ m.live

malloc_element(m) ==
    IF FreeCells(m) = {} THEN NULL
    ELSE CHOOSE n \in FreeCells(m) : \A k \in FreeCells(m) : n <= k

\* Content kept for a string buffer that is not allocated.  The pointer
\* e->value is non-NULL exactly for the members of strLive.
NoBytes == <<>>

\* A read or write of the fields of the cells S: an error when one of them
\* is not allocated.
touch(m, S) ==
    IF S \subseteq m.live THEN m
    ELSE [m EXCEPT !.fault = @ \cup {"access to a cell that is not allocated"}]

\* free(p): the cell is no longer allocated; its fields are dead.  Freeing a
\* cell that is not allocated is an error.
free(m, p) ==
    IF p \in m.live
    THEN [m EXCEPT !.live = @ \ {p}, !.next[p] = NULL, !.prev[p] = NULL]
    ELSE [m EXCEPT !.fault = @ \cup {"free of a cell that is not allocated"}]

\* free(e->value): reads the field of e and frees the buffer it points to.
free_value(m, e) ==
    IF e \in m.live /\ e \in m.strLive
    THEN [m EXCEPT !.strLive = @ \ {e}, !.value[e] = NoBytes, !.oob = @ \ {e}]
    ELSE [touch(m, {e}) EXCEPT
              !.fault = @ \cup {"free of a string that is not allocated"}]

-----------------------------------------------------------------------------
(* list.h primitives.  list.h is not among the sources of queue.c; the     *)
(* primitives follow the Node Linkage contract of the design: unlinking    *)
(* leaves the removed cell's own two fields as they were, the safe unlink  *)
(* makes it a self-loop.                                                   *)

INIT_LIST_HEAD(m, h) ==
    [touch(m, {h}) EXCEPT !.next[h] = h, !.prev[h] = h]

list_add(m, node, h) ==
    LET nxt == m.next[h]
        m0  == touch(m, {node, h, nxt})
        m1  == [m0 EXCEPT !.prev[nxt] = node]
        m2  == [m1 EXCEPT !.next[node] = nxt]
        m3  == [m2 EXCEPT !.prev[node] = h]
    IN  [m3 EXCEPT !.next[h] = node]

list_add_tail(m, node, h) ==
    LET prv == m.prev[h]
        m0  == touch(m, {node, h, prv})
        m1  == [m0 EXCEPT !.next[prv] = node]
        m2  == [m1 EXCEPT !.next[node] = h]
        m3  == [m2 EXCEPT !.prev[node] = prv]
    IN  [m3 EXCEPT !.prev[h] = node]

list_del(m, node) ==
    LET nxt == m.next[node]
        prv == m.prev[node]
        m0  == touch(m, {node, nxt, prv})
        m1  == [m0 EXCEPT !.prev[nxt] = prv]
    IN  [m1 EXCEPT !.next[prv] = nxt]

list_del_init(m, node) == INIT_LIST_HEAD(list_del(m, node), node)

list_move(m, node, h) == list_add(list_del(m, node), node, h)

list_empty(m, h) == m.next[h] = h

list_is_singular(m, h) == ~list_empty(m, h) /\ m.prev[h] = m.next[h]

-----------------------------------------------------------------------------
(* Queue lifecycle and basic operations *)

\* q_new: ok says whether malloc succeeds.
q_new(m, ok) ==
    IF ~ok THEN [m |-> m, ret |-> NULL]
    ELSE [m |-> INIT_LIST_HEAD([m EXCEPT !.live = @ \cup {Sentinel}], Sentinel),
          ret |-> Sentinel]

\* q_release_element that frees the element and leaves its string.
q_release_element_leak(m, e) == free(m, e)

q_release_element(m, e) == free(free_value(m, e), e)

\* The q_free loop that frees each element without its string.
RECURSIVE q_free_loop_leak(_, _, _, _)
q_free_loop_leak(m, cur, safe, l) ==
    IF cur = l THEN m
    ELSE LET m1 == touch(free(m, cur), {safe})
         IN  q_free_loop_leak(m1, safe, m1.next[safe], l)

\* The body of list_for_each_safe in q_free.
RECURSIVE q_free_loop(_, _, _, _)
q_free_loop(m, cur, safe, l) ==
    IF cur = l THEN m
    ELSE LET m1 == touch(q_release_element(m, cur), {safe})
         IN  q_free_loop(m1, safe, m1.next[safe], l)

q_free(m, l) ==
    IF l = NULL THEN m
    ELSE IF list_empty(m, l) THEN free(m, l)
    ELSE LET cur  == m.next[l]
             safe == m.next[cur]
         IN  free(q_free_loop(m, cur, safe, l), l)

\* node->value = malloc(sizeof(length)), okStr says whether it succeeds.
malloc_value(m, node, okStr) ==
    IF okStr THEN [m EXCEPT !.strLive = @ \cup {node}, !.value[node] = NoBytes]
    ELSE m

\* sizeof(length): the size of the variable, whatever number it holds.
sizeof_length(length) == SizeofSizeT

\* strncpy(node->value, s, n) into the buffer of sizeof(length) bytes:
\* with n = strlen(s) + 1 the string and its terminator are copied.
strncpy_value(m, node, s, n) ==
    IF n <= sizeof_length(n)
    THEN [m EXCEPT !.value[node] = Prefix(s, n)]
    ELSE [m EXCEPT !.value[node] = Prefix(s, n), !.oob = @ \cup {node}]

\* q_insert_head that forgets free(node) when the string allocation fails.
q_insert_head_leak(m, h, s, okNode, okStr) ==
    IF h = NULL THEN [m |-> m, ret |-> FALSE]
    ELSE LET node == IF okNode THEN malloc_element(m) ELSE NULL
         IN  IF node = NULL THEN [m |-> m, ret |-> FALSE]
             ELSE LET m1     == [m EXCEPT !.live = @ \cup {node}]
                      length == strlen(s) + 1
                      m2     == malloc_value(m1, node, okStr)
                  IN  IF node \in m2.strLive
                      THEN [m |-> list_add(strncpy_value(m2, node, s, length),
                                           node, h),
                            ret |-> TRUE]
                      ELSE [m |-> m2, ret |-> FALSE]

q_insert_head(m, h, s, okNode, okStr) ==
    IF h = NULL THEN [m |-> m, ret |-> FALSE]
    ELSE LET node == IF okNode THEN malloc_element(m) ELSE NULL
         IN  IF node = NULL THEN [m |-> m, ret |-> FALSE]
             ELSE LET m1     == [m EXCEPT !.live = @ \cup {node}]
                      length == strlen(s) + 1
                      m2     == malloc_value(m1, node, okStr)
                  IN  IF node \in m2.strLive
                      THEN [m |-> list_add(strncpy_value(m2, node, s, length),
                                           node, h),
                            ret |-> TRUE]
                      ELSE [m |-> free(m2, node), ret |-> FALSE]

\* q_insert_tail that links with list_add instead of list_add_tail.
q_insert_tail_front(m, h, s, okNode, okStr) ==
    IF h = NULL THEN [m |-> m, ret |-> FALSE]
    ELSE LET node == IF okNode THEN malloc_element(m) ELSE NULL
         IN  IF node = NULL THEN [m |-> m, ret |-> FALSE]
             ELSE LET m1  == [m EXCEPT !.live = @ \cup {node}]
                      len == strlen(s) + 1
                      m2  == malloc_value(m1, node, okStr)
                  IN  IF node \in m2.strLive
                      THEN [m |-> list_add(strncpy_value(m2, node, s, len),
                                           node, h),
                            ret |-> TRUE]
                      ELSE [m |-> free(m2, node), ret |-> FALSE]

q_insert_tail(m, h, s, okNode, okStr) ==
    IF h = NULL THEN [m |-> m, ret |-> FALSE]
    ELSE LET node == IF okNode THEN malloc_element(m) ELSE NULL
         IN  IF node = NULL THEN [m |-> m, ret |-> FALSE]
             ELSE LET m1  == [m EXCEPT !.live = @ \cup {node}]
                      len == strlen(s) + 1
                      m2  == malloc_value(m1, node, okStr)
                  IN  IF node \in m2.strLive
                      THEN [m |-> list_add_tail(strncpy_value(m2, node, s, len),
                                                node, h),
                            ret |-> TRUE]
                      ELSE [m |-> free(m2, node), ret |-> FALSE]

q_remove_head(m, h) ==
    IF h = NULL \/ list_empty(m, h) THEN [m |-> m, ret |-> NULL]
    ELSE LET e == m.next[h]
         IN  [m |-> list_del_init(m, m.next[h]), ret |-> e]

\* q_remove_tail that takes its element with list_first_entry.
q_remove_tail_first(m, h) ==
    IF h = NULL \/ list_empty(m, h) THEN [m |-> m, ret |-> NULL]
    ELSE LET e == m.next[h]
         IN  [m |-> list_del_init(m, m.prev[h]), ret |-> e]

q_remove_tail(m, h) ==
    IF h = NULL \/ list_empty(m, h) THEN [m |-> m, ret |-> NULL]
    ELSE LET e == m.prev[h]
         IN  [m |-> list_del_init(m, m.prev[h]), ret |-> e]

\* size_t arithmetic wraps around.  The code's modulus is 2^64; the model
\* keeps the wrap-around with 2^30, far above every buffer size it draws.
SizeModulus == 1073741824

size_sub(a, b) == (a - b) % SizeModulus

\* The string a buffer holds: its bytes before the first zero byte.
RECURSIVE CString(_)
CString(buf) ==
    IF buf = <<>> \/ Head(buf) = 0 THEN <<>>
    ELSE <<Head(buf)>> \o CString(Tail(buf))

\* The copy-out of q_remove_head/q_remove_tail for a non-NULL sp that points
\* to bufsize bytes: strncpy(sp, e->value, bufsize - 1) writes the indices
\* below n = bufsize - 1 (the string, then zero bytes), sp[n] = 0 writes
\* index n.  buf is the buffer after it, top the highest index written.
q_remove_copy(m, e, bufsize) ==
    LET n   == size_sub(bufsize, 1)
        buf == [i \in 1..bufsize |-> IF i <= n THEN ByteAt(m.value[e], i) ELSE 0]
    IN  [m   |-> IF n < bufsize THEN touch(m, {e})
                 ELSE [touch(m, {e}) EXCEPT
                          !.fault = @ \cup {"write past the end of sp"}],
         buf |-> buf,
         top |-> n]

\* The body of list_for_each in q_size.
RECURSIVE q_size_loop(_, _, _, _)
q_size_loop(m, node, h, len) ==
    IF node = h THEN len ELSE q_size_loop(m, m.next[node], h, len + 1)

q_size(m, h) ==
    IF h = NULL THEN 0 ELSE q_size_loop(m, m.next[h], h, 0)

-----------------------------------------------------------------------------
(* Structural transforms *)

\* The two-pointer walk taking the cell back stops on.
RECURSIVE q_delete_mid_loop_back(_, _, _)
q_delete_mid_loop_back(m, front, back) ==
    IF front # back /\ m.prev[back] # front
    THEN q_delete_mid_loop_back(m, m.next[front], m.prev[back])
    ELSE back

\* The two-pointer walk of q_delete_mid; yields the cell front stops on.
RECURSIVE q_delete_mid_loop(_, _, _)
q_delete_mid_loop(m, front, back) ==
    IF front # back /\ m.prev[back] # front
    THEN q_delete_mid_loop(m, m.next[front], m.prev[back])
    ELSE front

q_delete_mid(m, h) ==
    IF h = NULL \/ list_empty(m, h) THEN [m |-> m, ret |-> FALSE]
    ELSE LET front == q_delete_mid_loop(m, m.next[h], m.prev[h])
         IN  [m |-> q_release_element(list_del(m, front), front), ret |-> TRUE]

\* The q_delete_dup loop that deletes on match alone, ignoring last_dup.
RECURSIVE q_delete_dup_loop_keep_last(_, _, _, _, _)
q_delete_dup_loop_keep_last(m, ptr, nxt, h, last_dup) ==
    IF ptr = h THEN m
    ELSE LET match == nxt # h /\ strcmp(m.value[ptr], m.value[nxt]) = 0
             m1    == IF match
                      THEN q_release_element(list_del(m, ptr), ptr)
                      ELSE m
         IN  q_delete_dup_loop_keep_last(m1, nxt, m1.next[nxt], h, match)

\* The body of list_for_each_safe in q_delete_dup.
RECURSIVE q_delete_dup_loop(_, _, _, _, _)
q_delete_dup_loop(m, ptr, nxt, h, last_dup) ==
    IF ptr = h THEN m
    ELSE LET match == nxt # h /\ strcmp(m.value[ptr], m.value[nxt]) = 0
             m0    == touch(m, IF nxt # h THEN {ptr, nxt} ELSE {ptr})
             m1    == IF match \/ last_dup
                      THEN q_release_element(list_del(m0, ptr), ptr)
                      ELSE m0
             m2    == touch(m1, {nxt})
         IN  q_delete_dup_loop(m2, nxt, m2.next[nxt], h, match)

\* q_delete_dup that treats an empty ring like a NULL one.
q_delete_dup_empty_fails(m, h) ==
    IF h = NULL \/ list_empty(m, h) THEN [m |-> m, ret |-> FALSE]
    ELSE LET ptr == m.next[h]
         IN  [m |-> q_delete_dup_loop(m, ptr, m.next[ptr], h, FALSE),
              ret |-> TRUE]

q_delete_dup(m, h) ==
    IF h = NULL THEN [m |-> m, ret |-> FALSE]
    ELSE IF ~list_empty(m, h)
    THEN LET ptr == m.next[h]
         IN  [m |-> q_delete_dup_loop(m, ptr, m.next[ptr], h, FALSE),
              ret |-> TRUE]
    ELSE [m |-> m, ret |-> TRUE]

\* The q_swap loop that also stops when fewer than three cells are left.
RECURSIVE q_swap_loop_short(_, _, _)
q_swap_loop_short(m, node, h) ==
    IF m.next[node] # h /\ m.next[m.next[node]] # h
    THEN LET nxt == m.next[node]
             m1  == list_add(list_del(m, node), node, nxt)
         IN  q_swap_loop_short(m1, m1.next[node], h)
    ELSE m

\* The for loop of q_swap.
RECURSIVE q_swap_loop(_, _, _)
q_swap_loop(m, node, h) ==
    IF m.next[node] # h /\ node # h
    THEN LET nxt == m.next[node]
             m1  == list_add(list_del(m, node), node, nxt)
         IN  q_swap_loop(m1, m1.next[node], h)
    ELSE m

q_swap(m, h) ==
    IF h = NULL \/ list_empty(m, h) THEN m
    ELSE q_swap_loop(m, m.next[h], h)

\* The q_reverse loop that stops one cell early.
RECURSIVE q_reverse_loop_early(_, _, _, _)
q_reverse_loop_early(m, node, safe, h) ==
    IF safe = h THEN m
    ELSE LET m1 == list_move(m, node, h)
         IN  q_reverse_loop_early(m1, safe, m1.next[safe], h)

\* The body of list_for_each_safe in q_reverse.
RECURSIVE q_reverse_loop(_, _, _, _)
q_reverse_loop(m, node, safe, h) ==
    IF node = h THEN m
    ELSE LET m1 == list_move(m, node, h)
         IN  q_reverse_loop(m1, safe, m1.next[safe], h)

\* Exchanges the strings of the cells f and b and moves both inwards.
RECURSIVE q_reverse_values_loop(_, _, _)
q_reverse_values_loop(m, f, b) ==
    IF f = b THEN m
    ELSE LET m1 == [m EXCEPT !.value[f] = m.value[b], !.value[b] = m.value[f]]
         IN  IF m.next[f] = b THEN m1
             ELSE q_reverse_values_loop(m1, m.next[f], m.prev[b])

\* q_reverse that exchanges the strings and leaves the links.
q_reverse_values(m, h) ==
    IF h = NULL \/ list_empty(m, h) THEN m
    ELSE q_reverse_values_loop(m, m.next[h], m.prev[h])

q_reverse(m, h) ==
    IF h = NULL \/ list_empty(m, h) THEN m
    ELSE LET node == m.next[h]
         IN  q_reverse_loop(m, node, m.next[node], h)

-----------------------------------------------------------------------------
(* Sort engine *)

\* sorted_merge with the comparison turned around.
RECURSIVE sorted_merge_desc(_, _, _)
sorted_merge_desc(m, front, back) ==
    IF front = NULL \/ back = NULL
    THEN [m |-> m, ret |-> IF front # NULL THEN front ELSE back]
    ELSE IF strcmp(m.value[front], m.value[back]) < 0
    THEN LET r == sorted_merge_desc(m, front, m.next[back])
         IN  [m |-> [r.m EXCEPT !.next[back] = r.ret], ret |-> back]
    ELSE LET r == sorted_merge_desc(m, m.next[front], back)
         IN  [m |-> [r.m EXCEPT !.next[front] = r.ret], ret |-> front]

\* sorted_merge that takes the back cell on a tie as well.
RECURSIVE sorted_merge_ties_back(_, _, _)
sorted_merge_ties_back(m, front, back) ==
    IF front = NULL \/ back = NULL
    THEN [m |-> m, ret |-> IF front # NULL THEN front ELSE back]
    ELSE IF strcmp(m.value[front], m.value[back]) >= 0
    THEN LET r == sorted_merge_ties_back(m, front, m.next[back])
         IN  [m |-> [r.m EXCEPT !.next[back] = r.ret], ret |-> back]
    ELSE LET r == sorted_merge_ties_back(m, m.next[front], back)
         IN  [m |-> [r.m EXCEPT !.next[front] = r.ret], ret |-> front]

\* Merges two NULL-terminated chains; ret is the first cell of the result.
RECURSIVE sorted_merge(_, _, _)
sorted_merge(m, front, back) ==
    IF front = NULL \/ back = NULL
    THEN [m |-> m, ret |-> IF front # NULL THEN front ELSE back]
    ELSE IF strcmp(m.value[front], m.value[back]) > 0
    THEN LET r == sorted_merge(m, front, m.next[back])
         IN  [m |-> [r.m EXCEPT !.next[back] = r.ret], ret |-> back]
    ELSE LET r == sorted_merge(m, m.next[front], back)
         IN  [m |-> [r.m EXCEPT !.next[front] = r.ret], ret |-> front]

\* The slow/fast walk of merge_sort; yields the cell slow stops on.
RECURSIVE merge_sort_split(_, _, _)
merge_sort_split(m, slow, fast) ==
    IF fast # NULL /\ m.next[fast] # NULL
    THEN merge_sort_split(m, m.next[slow], m.next[m.next[fast]])
    ELSE slow

\* merge_sort that leaves the back half as it finds it.
RECURSIVE merge_sort_back_unsorted(_, _)
merge_sort_back_unsorted(m, first) ==
    IF first = NULL \/ m.next[first] = NULL THEN [m |-> m, ret |-> first]
    ELSE LET slow  == merge_sort_split(m, first, m.next[first])
             front == first
             back  == m.next[slow]
             m1    == [m EXCEPT !.next[slow] = NULL]
             r1    == merge_sort_back_unsorted(m1, front)
         IN  sorted_merge(r1.m, r1.ret, back)

\* merge_sort(&p) with *p = first; ret is the value left in *p.
RECURSIVE merge_sort(_, _)
merge_sort(m, first) ==
    IF first = NULL \/ m.next[first] = NULL THEN [m |-> m, ret |-> first]
    ELSE LET slow  == merge_sort_split(m, first, m.next[first])
             front == first
             back  == m.next[slow]
             m1    == [m EXCEPT !.next[slow] = NULL]
             r1    == merge_sort(m1, front)
             r2    == merge_sort(r1.m, back)
         IN  sorted_merge(r2.m, r1.ret, r2.ret)

\* The while loop of q_sort that restores the prev links.
RECURSIVE q_sort_rethread(_, _)
q_sort_rethread(m, tmp) ==
    IF m.next[tmp] # NULL
    THEN q_sort_rethread([m EXCEPT !.prev[m.next[tmp]] = tmp], m.next[tmp])
    ELSE [m |-> m, tmp |-> tmp]

\* q_sort that forgets the final head->prev = tmp.
q_sort_open(m, h) ==
    IF h = NULL \/ list_empty(m, h) \/ list_is_singular(m, h) THEN m
    ELSE LET m1 == [m EXCEPT !.next[m.prev[h]] = NULL]
             r  == merge_sort(m1, m1.next[h])
             m2 == [r.m EXCEPT !.next[h] = r.ret]
             t  == q_sort_rethread(m2, h)
         IN  [t.m EXCEPT !.next[t.tmp] = h]

q_sort(m, h) ==
    IF h = NULL \/ list_empty(m, h) \/ list_is_singular(m, h) THEN m
    ELSE LET m1 == [m EXCEPT !.next[m.prev[h]] = NULL]
             r  == merge_sort(m1, m1.next[h])
             m2 == [r.m EXCEPT !.next[h] = r.ret]
             t  == q_sort_rethread(m2, h)
             m3 == [t.m EXCEPT !.next[t.tmp] = h]
         IN  [m3 EXCEPT !.prev[h] = t.tmp]

-----------------------------------------------------------------------------
(* Input strings *)

Str_a  == <<97>>
Str_ab == <<97, 98>>
Str_b  == <<98>>

\* The strings the callers of the main specification insert.
Values == {Str_a, Str_ab, Str_b}

\* Where an insert's allocation fails: nowhere, at the element, at the string.
FailModes == {"none", "node", "str"}

-----------------------------------------------------------------------------
(* The state machine *)

Snapshot == [head |-> head, m |-> Mem, held |-> held]

\* No call is in progress.  A call in progress has its name in op, its place
\* in the code in pc, its locals in node, safe, flag and len, the cells its
\* loop has visited in seen, and the frames of merge_sort and sorted_merge
\* in stack.
Idle == [op |-> "idle", pc |-> "none", node |-> NULL, safe |-> NULL,
         flag |-> FALSE, len |-> 0, seen |-> <<>>, stack |-> <<>>]

NoInserts == [valid |-> FALSE, calls |-> <<>>]

InitHeap(K) ==
    /\ head = NULL
    /\ next = [n \in 0..K |-> NULL]
    /\ prev = [n \in 0..K |-> NULL]
    /\ value = [n \in 0..K |-> NoBytes]
    /\ live = {}
    /\ strLive = {}
    /\ oob = {}
    /\ fault = {}
    /\ held = {}
    /\ inserts = NoInserts
    /\ run = Idle
    /\ last = [op |-> "init", arg |-> <<>>, fail |-> "none", ret |-> NULL,
               pre |-> [head |-> NULL,
                        m |-> [next |-> [n \in 0..K |-> NULL],
                               prev |-> [n \in 0..K |-> NULL],
                               value |-> [n \in 0..K |-> NoBytes],
                               live |-> {}, strLive |-> {}, oob |-> {},
                               fault |-> {}],
                        held |-> {}]]

Init == InitHeap(MaxNodes)

\* The heap after a call.
Commit(m) ==
    /\ next' = m.next
    /\ prev' = m.prev
    /\ value' = m.value
    /\ live' = m.live
    /\ strLive' = m.strLive
    /\ oob' = m.oob
    /\ fault' = m.fault

\* The record of a call that runs from entry to return in one step.
Call(op, arg, fail, ret) ==
    /\ last' = [op |-> op, arg |-> arg, fail |-> fail, ret |-> ret, pre |-> Snapshot]
    /\ run' = run

\* The caller creates a queue when it has none.
New ==
    /\ head = NULL
    /\ \E ok \in BOOLEAN :
         LET r == q_new(Mem, ok)
         IN  /\ Commit(r.m)
             /\ head' = r.ret
             /\ inserts' = [valid |-> r.ret # NULL, calls |-> <<>>]
             /\ Call("new", <<>>, IF ok THEN "none" ELSE "node", r.ret)
    /\ UNCHANGED held

\* The caller destroys its queue and drops the handle.
Free ==
    /\ Commit(q_free(Mem, head))
    /\ head' = NULL
    /\ inserts' = NoInserts
    /\ Call("free", <<>>, "none", NULL)
    /\ UNCHANGED held

\* insert_head of a string of vals with an allocation outcome of fails.
InsertHeadOf(vals, fails) ==
    \E s \in vals, fail \in fails :
        /\ fail # "node" => FreeCells(Mem) # {}
        /\ LET r == q_insert_head(Mem, head, s, fail # "node", fail # "str")
           IN  /\ Commit(r.m)
               /\ inserts' = IF inserts.valid /\ r.ret
                             THEN [inserts EXCEPT !.calls = Append(@, <<"head", s>>)]
                             ELSE NoInserts
               /\ Call("insert_head", s, fail, r.ret)
        /\ UNCHANGED <<head, held>>

InsertHead == InsertHeadOf(Values, FailModes)

\* insert_tail of a string of vals with an allocation outcome of fails.
InsertTailOf(vals, fails) ==
    \E s \in vals, fail \in fails :
        /\ fail # "node" => FreeCells(Mem) # {}
        /\ LET r == q_insert_tail(Mem, head, s, fail # "node", fail # "str")
           IN  /\ Commit(r.m)
               /\ inserts' = IF inserts.valid /\ r.ret
                             THEN [inserts EXCEPT !.calls = Append(@, <<"tail", s>>)]
                             ELSE NoInserts
               /\ Call("insert_tail", s, fail, r.ret)
        /\ UNCHANGED <<head, held>>

InsertTail == InsertTailOf(Values, FailModes)

RemoveHead ==
    LET r == q_remove_head(Mem, head)
    IN  /\ Commit(r.m)
        /\ held' = IF r.ret = NULL THEN held ELSE held \cup {r.ret}
        /\ inserts' = NoInserts
        /\ Call("remove_head", <<>>, "none", r.ret)
        /\ UNCHANGED head

RemoveTail ==
    LET r == q_remove_tail(Mem, head)
    IN  /\ Commit(r.m)
        /\ held' = IF r.ret = NULL THEN held ELSE held \cup {r.ret}
        /\ inserts' = NoInserts
        /\ Call("remove_tail", <<>>, "none", r.ret)
        /\ UNCHANGED head

\* q_remove_head with a buffer sp of bufsize bytes.
RemoveHeadInto(sizes) ==
    \E bufsize \in sizes :
        LET r == q_remove_head(Mem, head)
            c == IF r.ret = NULL THEN [m |-> r.m, buf |-> <<>>, top |-> NULL]
                 ELSE q_remove_copy(r.m, r.ret, bufsize)
        IN  /\ Commit(c.m)
            /\ held' = IF r.ret = NULL THEN held ELSE held \cup {r.ret}
            /\ inserts' = NoInserts
            /\ Call("remove_head_into",
                    [bufsize |-> bufsize, buf |-> c.buf, top |-> c.top],
                    "none", r.ret)
            /\ UNCHANGED head

\* q_remove_tail with a buffer sp of bufsize bytes.
RemoveTailInto(sizes) ==
    \E bufsize \in sizes :
        LET r == q_remove_tail(Mem, head)
            c == IF r.ret = NULL THEN [m |-> r.m, buf |-> <<>>, top |-> NULL]
                 ELSE q_remove_copy(r.m, r.ret, bufsize)
        IN  /\ Commit(c.m)
            /\ held' = IF r.ret = NULL THEN held ELSE held \cup {r.ret}
            /\ inserts' = NoInserts
            /\ Call("remove_tail_into",
                    [bufsize |-> bufsize, buf |-> c.buf, top |-> c.top],
                    "none", r.ret)
            /\ UNCHANGED head

\* The caller releases an element it was handed.
Release ==
    \E e \in held :
        /\ Commit(q_release_element(Mem, e))
        /\ held' = held \ {e}
        /\ inserts' = NoInserts
        /\ Call("release", <<>>, "none", e)
        /\ UNCHANGED head

Size ==
    /\ Call("size", <<>>, "none", q_size(Mem, head))
    /\ UNCHANGED <<head, next, prev, value, live, strLive, oob, fault, held,
                   inserts>>

DeleteMid ==
    LET r == q_delete_mid(Mem, head)
    IN  /\ Commit(r.m)
        /\ inserts' = NoInserts
        /\ Call("delete_mid", <<>>, "none", r.ret)
        /\ UNCHANGED <<head, held>>

DeleteDup ==
    LET r == q_delete_dup(Mem, head)
    IN  /\ Commit(r.m)
        /\ inserts' = NoInserts
        /\ Call("delete_dup", <<>>, "none", r.ret)
        /\ UNCHANGED <<head, held>>

Swap ==
    /\ Commit(q_swap(Mem, head))
    /\ inserts' = NoInserts
    /\ Call("swap", <<>>, "none", NULL)
    /\ UNCHANGED <<head, held>>

Reverse ==
    /\ Commit(q_reverse(Mem, head))
    /\ inserts' = NoInserts
    /\ Call("reverse", <<>>, "none", NULL)
    /\ UNCHANGED <<head, held>>

Sort ==
    /\ Commit(q_sort(Mem, head))
    /\ inserts' = NoInserts
    /\ Call("sort", <<>>, "none", NULL)
    /\ UNCHANGED <<head, held>>

Next ==
    \/ New
    \/ Free
    \/ InsertHead
    \/ InsertTail
    \/ RemoveHead
    \/ RemoveTail
    \/ Release
    \/ Size
    \/ DeleteMid
    \/ DeleteDup
    \/ Swap
    \/ Reverse
    \/ Sort

Spec == Init /\ [][Next]_vars

-----------------------------------------------------------------------------
(* The transforms applied to every ring of up to MaxLen elements *)

\* The heap after q_new and insert_tail of vals[1], ..., vals[n], which
\* malloc served with the cells 1, ..., n.
RingOf(K, vals) ==
    LET n == Len(vals)
    IN  [next    |-> [k \in 0..K |-> IF k <= n THEN (k + 1) % (n + 1) ELSE NULL],
         prev    |-> [k \in 0..K |-> IF k <= n THEN (k + n) % (n + 1) ELSE NULL],
         value   |-> [k \in 0..K |-> IF 1 <= k /\ k <= n THEN vals[k] ELSE NoBytes],
         live    |-> 0..n,
         strLive |-> 1..n,
         oob     |-> {},
         fault   |-> {}]

InitOps ==
    \E n \in 0..MaxLen :
        \E vals \in [1..n -> Values] :
            LET m == RingOf(MaxLen, vals)
            IN  /\ head = Sentinel
                /\ next = m.next
                /\ prev = m.prev
                /\ value = m.value
                /\ live = m.live
                /\ strLive = m.strLive
                /\ oob = m.oob
                /\ fault = m.fault
                /\ held = {}
                /\ inserts = NoInserts
                /\ run = Idle
                /\ last = [op |-> "init", arg |-> <<>>, fail |-> "none",
                           ret |-> NULL,
                           pre |-> [head |-> Sentinel, m |-> m, held |-> {}]]

NextOps ==
    \/ DeleteMid
    \/ DeleteDup
    \/ Swap
    \/ Reverse
    \/ Sort

SpecOps == InitOps /\ [][NextOps]_vars

-----------------------------------------------------------------------------
(* String buffers: inserts of strings around the size of the buffer the    *)
(* code allocates, and removes that copy the string out.                  *)

\* Strings of 7 and of 8 bytes: with its terminator the first fills a
\* buffer of sizeof(size_t) bytes, the second does not fit.
Str_7 == <<97, 98, 99, 100, 101, 102, 103>>
Str_8 == <<97, 98, 99, 100, 101, 102, 103, 104>>

BufValues == {Str_7, Str_8}

\* The sizes of the output buffers the callers pass.
BufSizes == 0..MaxBuf

InitBuf == InitHeap(BufNodes)

\* No write has gone out of bounds: the behaviour of the program is defined.
Defined == oob = {} /\ fault = {}

NextBuf ==
    \/ Defined /\ New
    \/ Defined /\ InsertHeadOf(BufValues, {"none"})
    \/ Defined /\ InsertTailOf(BufValues, {"none"})
    \/ Defined /\ RemoveHeadInto(BufSizes)
    \/ Defined /\ RemoveTailInto(BufSizes)
    \/ Defined /\ Release

SpecBuf == InitBuf /\ [][NextBuf]_vars

-----------------------------------------------------------------------------
(* The scenario of the documentation of q_delete_mid: letters are inserted *)
(* at the tail of a new queue, then the middle is deleted.                 *)

Str_c == <<99>>
Str_d == <<100>>
Str_e == <<101>>
Str_f == <<102>>

Letters == {Str_a, Str_b, Str_c, Str_d, Str_e, Str_f}

InitScenario == InitHeap(ScenarioNodes)

\* The letters not yet in the queue.
FreshLetters == Letters \ {value[n] : n \in strLive}

\* The caller fills the queue before it transforms it.
InsertLetter ==
    /\ head # NULL
    /\ last.op \in {"new", "insert_tail"}
    /\ InsertTailOf(FreshLetters, {"none"})

NextScenario ==
    \/ New
    \/ InsertLetter
    \/ DeleteMid

SpecScenario == InitScenario /\ [][NextScenario]_vars

-----------------------------------------------------------------------------
(* Observations of a heap, used to state the properties *)

\* The cells met following next from cell n up to the sentinel h, at most
\* fuel of them.
RECURSIVE Walk(_, _, _, _)
Walk(m, n, h, fuel) ==
    IF n = h \/ fuel = 0 \/ n \notin Cells(m) THEN <<>>
    ELSE <<n>> \o Walk(m, m.next[n], h, fuel - 1)

\* Head-to-tail traversal of the ring of sentinel h.
Order(m, h) ==
    IF h = NULL THEN <<>> ELSE Walk(m, m.next[h], h, Cardinality(Cells(m)))

\* The traversal comes back to the sentinel.
Closes(m, h) ==
    LET w == Order(m, h)
    IN  /\ Len(w) < Cardinality(Cells(m))
        /\ (IF w = <<>> THEN m.next[h] ELSE m.next[w[Len(w)]]) = h

Range(w) == {w[i] : i \in 1..Len(w)}

\* The strings along a sequence of cells.
ValuesOf(m, w) == [i \in 1..Len(w) |-> m.value[w[i]]]

\* The elements the ring owns: allocated and not handed to the caller.
Owned(m, hl) == m.live \ (hl \cup {Sentinel})

\* Every cell on the ring is doubly linked with its two neighbours.
DoublyLinked(m, h) ==
    \A n \in Range(Order(m, h)) \cup {h} :
        /\ m.next[n] \in Cells(m)
        /\ m.prev[n] \in Cells(m)
        /\ m.prev[m.next[n]] = n
        /\ m.next[m.prev[n]] = n

WellFormed(m, h, hl) ==
    /\ DoublyLinked(m, h)
    /\ Closes(m, h)
    /\ Range(Order(m, h)) = Owned(m, hl)
    /\ Len(Order(m, h)) = Cardinality(Owned(m, hl))
    /\ (Owned(m, hl) = {}) <=> (m.next[h] = h /\ m.prev[h] = h)

\* The state before the last call.
PreOrder == Order(last.pre.m, last.pre.head)
PreValues == ValuesOf(last.pre.m, PreOrder)
CurOrder == Order(Mem, head)
CurValues == ValuesOf(Mem, CurOrder)

\* w without its i-th entry.
Without(w, i) == SubSeq(w, 1, i - 1) \o SubSeq(w, i + 1, Len(w))

\* w back to front.
Reversed(w) == [i \in 1..Len(w) |-> w[Len(w) + 1 - i]]

-----------------------------------------------------------------------------
(* Properties *)

\* C1: after every completed operation on an existing queue the ring
\* is a well-formed circular doubly-linked list: next and prev are inverse on
\* the sentinel and every linked cell, the traversal from the sentinel comes
\* back to it having met every linked element exactly once, and the queue
\* has no element exactly when the sentinel is a self-loop.
C1_RingWellFormed ==
    head # NULL => WellFormed(Mem, head, held)

\* C1 witness: sort has just reordered a ring of three elements.
C1_Witness ==
    /\ last.op = "sort"
    /\ Len(CurOrder) = 3
    /\ CurOrder # PreOrder
    /\ WellFormed(Mem, head, held)

\* What a sequence of successful inserts builds: head inserts prepend,
\* tail inserts append.
RECURSIVE Built(_)
Built(calls) ==
    IF calls = <<>> THEN <<>>
    ELSE LET c    == calls[Len(calls)]
             rest == Built(SubSeq(calls, 1, Len(calls) - 1))
         IN  IF c[1] = "head" THEN <<c[2]>> \o rest ELSE Append(rest, c[2])

\* C2: after a sequence of successful insert_head/insert_tail calls on a
\* fresh ring, q_size is the number of linked elements and the traversal
\* shows the head-inserted values prepended and the tail-inserted values
\* appended, in call order.
C2_InsertOrder ==
    inserts.valid =>
        /\ q_size(Mem, head) = Cardinality(Owned(Mem, held))
        /\ q_size(Mem, head) = Len(inserts.calls)
        /\ CurValues = Built(inserts.calls)

\* C2 witness: three inserts mixing both ends.
C2_Witness ==
    /\ inserts.valid
    /\ Len(inserts.calls) = 3
    /\ inserts.calls[1][1] = "tail"
    /\ inserts.calls[2][1] = "head"
    /\ inserts.calls[3][1] = "tail"
    /\ CurValues = <<inserts.calls[2][2], inserts.calls[1][2], inserts.calls[3][2]>>

\* The removed element e is unlinked, still allocated with its string
\* untouched, and the ring keeps the elements `rest` in order.
RemovedKeeping(e, rest) ==
    /\ last.ret = e
    /\ e \notin Range(CurOrder)
    /\ e \in live /\ e \in strLive
    /\ value[e] = last.pre.m.value[e]
    /\ live = last.pre.m.live /\ strLive = last.pre.m.strLive
    /\ CurOrder = rest
    /\ CurValues = ValuesOf(last.pre.m, rest)
    /\ q_size(Mem, head) = q_size(last.pre.m, last.pre.head) - 1

\* C3: on a non-empty ring remove_head returns the first element and
\* remove_tail the last; the element is unlinked, neither it nor its string
\* is freed, the size drops by one and the other elements keep their order.
C3_RemoveEnds ==
    /\ (last.op = "remove_head" /\ PreOrder # <<>>)
          => RemovedKeeping(Head(PreOrder), Tail(PreOrder))
    /\ (last.op = "remove_tail" /\ PreOrder # <<>>)
          => RemovedKeeping(PreOrder[Len(PreOrder)],
                            SubSeq(PreOrder, 1, Len(PreOrder) - 1))

\* C3 witness: remove_tail took the last of three elements.
C3_Witness ==
    /\ last.op = "remove_tail"
    /\ Len(PreOrder) = 3
    /\ last.ret = PreOrder[3]
    /\ last.ret \in held

\* C10: insert_head and insert_tail fail exactly when the ring is null or
\* one of the two allocations fails; a failed insert leaves the links, the
\* values and the live allocations (elements and strings) as they were; and
\* every linked element has a string.
C10_InsertFailure ==
    /\ last.op \in {"insert_head", "insert_tail"} =>
          /\ (last.ret = FALSE) <=> (last.pre.head = NULL \/ last.fail # "none")
          /\ last.ret = FALSE => (Mem = last.pre.m /\ CurOrder = PreOrder)
    /\ Range(CurOrder) \subseteq strLive

\* C10 witness: the string allocation of an insert failed on a ring that
\* holds elements.
C10_Witness ==
    /\ last.op \in {"insert_head", "insert_tail"}
    /\ last.fail = "str"
    /\ last.pre.head # NULL
    /\ last.ret = FALSE
    /\ Len(CurOrder) = 2

\* The strings along w never decrease under strcmp.
NonDecreasing(vs) ==
    \A i \in 1..Len(vs) - 1 : strcmp(vs[i], vs[i + 1]) <= 0

\* C4: after sort the traversal is non-decreasing under strcmp and holds
\* the same elements, each with its string, as before the call; sorting
\* once more leaves the order of the elements as it is.
C4_SortAscending ==
    last.op = "sort" =>
        /\ NonDecreasing(CurValues)
        /\ Len(CurOrder) = Len(PreOrder)
        /\ Range(CurOrder) = Range(PreOrder)
        /\ \A n \in Range(CurOrder) : value[n] = last.pre.m.value[n]
        /\ Order(q_sort(Mem, head), head) = CurOrder

\* C4 witness: sort rearranged four elements, two of them equal.
C4_Witness ==
    /\ last.op = "sort"
    /\ Len(CurOrder) = 4
    /\ CurOrder # PreOrder
    /\ \E i \in 1..3 : CurValues[i] = CurValues[i + 1]
    /\ \E i \in 1..3 : strcmp(CurValues[i], CurValues[i + 1]) < 0
    /\ NonDecreasing(CurValues)

\* How many entries of vs equal v.
Occurrences(vs, v) == Cardinality({i \in 1..Len(vs) : vs[i] = v})

\* The cells of PreOrder whose string occurs once in the ring.
PreSingles ==
    SelectSeq(PreOrder,
              LAMBDA n : Occurrences(PreValues, last.pre.m.value[n]) = 1)

\* C5: on a ring in ascending order delete_dup keeps exactly the elements
\* whose string occurs once, in their order, and frees every other element
\* with its string; a ring without repeated strings is left as it is, and a
\* second delete_dup changes nothing.
C5_DeleteDup ==
    (last.op = "delete_dup" /\ last.pre.head # NULL /\ NonDecreasing(PreValues)) =>
        /\ last.ret = TRUE
        /\ CurOrder = PreSingles
        /\ CurValues = ValuesOf(last.pre.m, PreSingles)
        /\ live = last.pre.m.live \ (Range(PreOrder) \ Range(PreSingles))
        /\ strLive = last.pre.m.strLive \ (Range(PreOrder) \ Range(PreSingles))
        /\ PreSingles = PreOrder => Mem = last.pre.m
        /\ q_delete_dup(Mem, head).m = Mem

\* C5 witness: delete_dup on a sorted ring of four removed a run of equal
\* strings and kept two elements.
C5_Witness ==
    /\ last.op = "delete_dup"
    /\ NonDecreasing(PreValues)
    /\ Len(PreOrder) = 4
    /\ Len(CurOrder) = 2
    /\ Cardinality(live) = 3

\* The ring after delete_mid lost the element at 0-based index i.
MidDeleted(i) ==
    /\ last.ret = TRUE
    /\ CurOrder = Without(PreOrder, i + 1)
    /\ CurValues = ValuesOf(last.pre.m, Without(PreOrder, i + 1))
    /\ live = last.pre.m.live \ {PreOrder[i + 1]}
    /\ strLive = last.pre.m.strLive \ {PreOrder[i + 1]}

\* C6: on a non-empty ring of n elements delete_mid returns true and
\* deletes exactly the element at 0-based index floor(n/2), the others
\* keeping their order.
C6_DeleteMidFloorHalf ==
    (last.op = "delete_mid" /\ PreOrder # <<>>) =>
        MidDeleted(Len(PreOrder) \div 2)

\* C8: reverse leaves the same elements linked in the reverse of their
\* previous order, and a second reverse restores the original order.
C8_Reverse ==
    last.op = "reverse" =>
        /\ CurOrder = Reversed(PreOrder)
        /\ CurValues = Reversed(PreValues)
        /\ Order(q_reverse(Mem, head), head) = PreOrder

\* C8 witness: reverse turned a ring of four around.
C8_Witness ==
    /\ last.op = "reverse"
    /\ Len(PreOrder) = 4
    /\ CurOrder = <<PreOrder[4], PreOrder[3], PreOrder[2], PreOrder[1]>>

\* w with the entries of each pair (1,2), (3,4), ... exchanged; a last
\* unpaired entry stays.
PairsSwapped(w) ==
    [i \in 1..Len(w) |->
        IF i % 2 = 1 THEN (IF i < Len(w) THEN w[i + 1] ELSE w[i]) ELSE w[i - 1]]

\* C9: swap exchanges the elements at 0-based positions 2k and 2k+1 and
\* leaves an unpaired last element in place (1,2,3,4 becomes 2,1,4,3); a
\* second swap restores the original order.
C9_SwapPairs ==
    last.op = "swap" =>
        /\ CurOrder = PairsSwapped(PreOrder)
        /\ CurValues = PairsSwapped(PreValues)
        /\ Order(q_swap(Mem, head), head) = PreOrder

\* C9 witness: swap turned the ring 1,2,3,4 into 2,1,4,3.
C9_Witness ==
    /\ last.op = "swap"
    /\ PreOrder = <<1, 2, 3, 4>>
    /\ CurOrder = <<2, 1, 4, 3>>

C11_ExactBuffer ==
    (last.op \in {"insert_head", "insert_tail"} /\ last.ret = TRUE) =>
        /\ sizeof_length(strlen(last.arg) + 1) = strlen(last.arg) + 1
        /\ strlen(last.arg) + 1 <= sizeof_length(strlen(last.arg) + 1)
        /\ oob = {}

\* The removed element's string, cut to the room the buffer leaves it.
CopiedOut ==
    LET v == last.pre.m.value[last.ret]
    IN  Prefix(v, IF Len(v) < last.arg.bufsize - 1 THEN Len(v)
                  ELSE last.arg.bufsize - 1)

\* C12: remove_head and remove_tail with a buffer of bufsize bytes write
\* only the indices 0..bufsize-1, leave the buffer null-terminated, and the
\* buffer holds the first min(length, bufsize-1) bytes of the removed
\* string, for every bufsize from 0 on.
C12_CopyOut ==
    (last.op \in {"remove_head_into", "remove_tail_into"} /\ last.ret # NULL) =>
        /\ last.arg.top < last.arg.bufsize
        /\ fault = {}
        /\ last.arg.bufsize >= 1 => last.arg.buf[last.arg.bufsize] = 0
        /\ CString(last.arg.buf) = CopiedOut

\* ---- Sort followed by delete_dup on rings of fruit names ----

Str_apple  == <<97, 112, 112, 108, 101>>
Str_banana == <<98, 97, 110, 97, 110, 97>>
Str_cherry == <<99, 104, 101, 114, 114, 121>>

Fruits == {Str_apple, Str_banana, Str_cherry}

InitFruit == InitHeap(FruitNodes)

\* The caller fills the queue before it sorts it.
InsertFruit ==
    /\ head # NULL
    /\ last.op \in {"new", "insert_tail"}
    /\ InsertTailOf(Fruits, {"none"})

NextFruit ==
    \/ New
    \/ InsertFruit
    \/ Sort
    \/ DeleteDup

SpecFruit == InitFruit /\ [][NextFruit]_vars

\* vs is strictly ascending under strcmp.
Ascending(vs) ==
    \A i \in 1..Len(vs) - 1 : strcmp(vs[i], vs[i + 1]) < 0

\* The strings left on the ring when delete_dup runs from the present state.
AfterDeleteDup ==
    LET d == q_delete_dup(Mem, head)
    IN  ValuesOf(d.m, Order(d.m, head))

\* C16: after sort, delete_dup leaves exactly the strings that occurred once
\* in the ring before the sort, in ascending order; banana, apple, apple,
\* cherry sorts to apple, apple, banana, cherry and is left as banana, cherry.
C16_SortThenDeleteDup ==
    (last.op = "sort" /\ head # NULL) =>
        /\ q_delete_dup(Mem, head).ret = TRUE
        /\ Ascending(AfterDeleteDup)
        /\ Range(AfterDeleteDup) =
               {v \in Range(PreValues) : Occurrences(PreValues, v) = 1}
        /\ PreValues = <<Str_banana, Str_apple, Str_apple, Str_cherry>> =>
               /\ CurValues = <<Str_apple, Str_apple, Str_banana, Str_cherry>>
               /\ AfterDeleteDup = <<Str_banana, Str_cherry>>

\* C16 witness: delete_dup ran on the ring that sort made of banana, apple,
\* apple, cherry (cells 1 to 4 in insertion order) and left banana, cherry.
C16_Witness ==
    /\ last.op = "delete_dup"
    /\ PreOrder = <<2, 3, 1, 4>>
    /\ PreValues = <<Str_apple, Str_apple, Str_banana, Str_cherry>>
    /\ CurOrder = <<1, 4>>
    /\ CurValues = <<Str_banana, Str_cherry>>

\* The place of cell n in the sequence of cells s.
IndexIn(s, n) == CHOOSE i \in 1..Len(s) : s[i] = n

\* C17: sort is stable: elements with equal strings keep the relative order
\* they had before the call.
C17_SortStable ==
    last.op = "sort" =>
        \A i, j \in 1..Len(CurOrder) :
            (i < j /\ CurValues[i] = CurValues[j]) =>
                IndexIn(PreOrder, CurOrder[i]) < IndexIn(PreOrder, CurOrder[j])

\* C17 witness: sort moved elements of a ring of four in which two equal
\* strings are apart, with a smaller string behind them.
C17_Witness ==
    /\ last.op = "sort"
    /\ Len(PreOrder) = 4
    /\ CurOrder # PreOrder
    /\ PreValues[1] = PreValues[3]
    /\ strcmp(PreValues[4], PreValues[1]) < 0
    /\ \E i \in 1..3 : CurValues[i] = CurValues[i + 1]

\* The last call found no queue or an empty one.
EmptyBefore == last.pre.head = NULL \/ PreOrder = <<>>

\* The last call changed nothing in memory and handed nothing out.
NothingChanged == Mem = last.pre.m /\ held = last.pre.held

\* C13: on a NULL or empty ring remove_head and remove_tail return NULL,
\* size returns 0, delete_mid returns false, sort, reverse and swap change
\* nothing; delete_dup returns false for a NULL ring only, true for an empty
\* one.  Nothing is allocated or freed and an empty ring stays a self-loop.
C13_EmptyRing ==
    /\ last.op = "delete_dup" => (last.ret = FALSE <=> last.pre.head = NULL)
    /\ EmptyBefore =>
        /\ last.op \in {"remove_head", "remove_tail"} =>
               (last.ret = NULL /\ NothingChanged)
        /\ last.op = "size" => last.ret = 0
        /\ last.op = "delete_mid" => (last.ret = FALSE /\ NothingChanged)
        /\ last.op = "delete_dup" =>
               (last.ret = (last.pre.head # NULL) /\ NothingChanged)
        /\ last.op \in {"sort", "reverse", "swap"} => NothingChanged
        /\ (last.op \in {"remove_head", "remove_tail", "size", "delete_mid",
                         "delete_dup", "sort", "reverse", "swap"}
              /\ head # NULL) =>
               (next[head] = head /\ prev[head] = head)

\* C13 witness: delete_dup returned true on an empty ring while the caller
\* holds a removed element.
C13_Witness ==
    /\ last.op = "delete_dup"
    /\ last.pre.head # NULL
    /\ PreOrder = <<>>
    /\ last.ret = TRUE
    /\ held # {}

\* C14: q_free of NULL does nothing; q_free of a queue frees the string and
\* the element of every linked element, each once, then the sentinel, and
\* leaves the elements handed out by remove_head/remove_tail as they are.
C14_Destroy ==
    last.op = "free" =>
        IF last.pre.head = NULL THEN NothingChanged
        ELSE /\ live = last.pre.m.live \ (Range(PreOrder) \cup {Sentinel})
             /\ strLive = last.pre.m.strLive \ Range(PreOrder)
             /\ Range(PreOrder) \subseteq last.pre.m.strLive
             /\ fault = {}
             /\ held = last.pre.held
             /\ \A e \in held :
                    /\ e \in live /\ e \in strLive
                    /\ value[e] = last.pre.m.value[e]
                    /\ next[e] = last.pre.m.next[e]
                    /\ prev[e] = last.pre.m.prev[e]

\* C14 witness: a queue of two elements was destroyed while the caller held
\* a removed element, which is all that stays allocated.
C14_Witness ==
    /\ last.op = "free"
    /\ Len(PreOrder) = 2
    /\ held # {}
    /\ live = held
    /\ strLive = held

\* insert_head of s, remove_head and release of the returned element, from
\* the heap m: the heap after each of the three calls.
RoundTrip(m, h, s) ==
    LET r1 == q_insert_head(m, h, s, TRUE, TRUE)
        r2 == q_remove_head(r1.m, h)
    IN  [inserted |-> r1.ret, afterInsert |-> r1.m,
         removed |-> r2.ret, afterRemove |-> r2.m,
         afterRelease |-> q_release_element(r2.m, r2.ret)]

\* C15: from every state with a queue and room for an element, a
\* successful insert_head followed by remove_head and release_element of
\* the returned element leaves the links, the values and the live
\* allocations exactly as they were.
C15_RoundTrip ==
    (head # NULL /\ FreeCells(Mem) # {}) =>
        \A s \in Values :
            LET t == RoundTrip(Mem, head, s)
            IN  /\ t.inserted = TRUE
                /\ t.removed = malloc_element(Mem)
                /\ t.afterRelease = Mem
                /\ Order(t.afterRelease, head) = CurOrder

\* C15 witness: a release has just happened, the ring holds two elements,
\* and the round trip from here passes through a ring of three.
C15_Witness ==
    /\ last.op = "release"
    /\ head # NULL
    /\ Len(CurOrder) = 2
    /\ FreeCells(Mem) # {}
    /\ LET t == RoundTrip(Mem, head, Str_ab)
       IN  /\ Len(Order(t.afterInsert, head)) = 3
           /\ t.afterInsert.value[t.removed] = Str_ab
           /\ t.afterRemove # Mem
           /\ t.afterRelease = Mem

\* C18: swap, reverse and sort only rewire links: the ring holds the same
\* cells with the same strings, the live allocations and the size are what
\* they were, and nothing is allocated or freed.
C18_RelinkOnly ==
    last.op \in {"swap", "reverse", "sort"} =>
        /\ Range(CurOrder) = Range(PreOrder)
        /\ Len(CurOrder) = Len(PreOrder)
        /\ value = last.pre.m.value
        /\ live = last.pre.m.live
        /\ strLive = last.pre.m.strLive
        /\ held = last.pre.held
        /\ fault = {}
        /\ q_size(Mem, head) = q_size(last.pre.m, last.pre.head)

\* C18 witness: a call of swap, reverse or sort changed the order of a ring
\* of four cells whose end strings differ.
C18_Witness ==
    /\ last.op \in {"swap", "reverse", "sort"}
    /\ Len(PreOrder) = 4
    /\ CurOrder # PreOrder
    /\ PreValues[1] # PreValues[4]
    /\ live = last.pre.m.live

\* The cells the last call freed.
Freed == last.pre.m.live \ live

\* No call freed a cell twice or touched a freed one, no live cell points
\* to a freed one, the ring and the elements handed out are allocated, and
\* delete_mid and delete_dup free only cells they took off the ring.
TemporalSafety ==
    /\ fault = {}
    /\ \A n \in live : next[n] \in live /\ prev[n] \in live
    /\ held \subseteq live \cap strLive
    /\ head # NULL => (head \in live /\ Range(CurOrder) \subseteq live \cap strLive)
    /\ last.op \in {"delete_mid", "delete_dup"} =>
           /\ Freed \subseteq Range(PreOrder)
           /\ Freed \cap Range(CurOrder) = {}
           /\ strLive = last.pre.m.strLive \ Freed

At(op, pc, node, safe) ==
    [Idle EXCEPT !.op = op, !.pc = pc, !.node = node, !.safe = safe]

\* Entry into a call: one call is followed on each ring.
Enter(r) ==
    /\ run.op = "idle"
    /\ last.op = "init"
    /\ run' = r
    /\ last' = [op |-> "call", arg |-> <<>>, fail |-> "none", ret |-> NULL,
                pre |-> Snapshot]
    /\ UNCHANGED <<head, next, prev, value, live, strLive, oob, fault, held,
                   inserts>>

\* One step inside a call: the heap becomes m and the locals r.
Step(m, r) ==
    /\ Commit(m)
    /\ run' = r
    /\ UNCHANGED <<head, held, inserts, last>>

\* Return from the call op, leaving the heap m.  A boolean result stays in
\* flag and the result of q_size in len; the record of the call keeps the
\* cells its loop visited.
Return(op, flag, len, m) ==
    /\ Commit(m)
    /\ run' = [Idle EXCEPT !.flag = flag, !.len = len]
    /\ last' = [last EXCEPT !.op = op, !.arg = run.seen]
    /\ UNCHANGED <<held, inserts>>

\* q_size: list_for_each counts the cells up to the sentinel.
SizeEnter ==
    Enter(IF head = NULL THEN At("size", "exit", NULL, NULL)
          ELSE At("size", "loop", next[head], NULL))

SizeStep ==
    /\ run.op = "size" /\ run.pc = "loop"
    /\ run.node # head
    /\ Step(Mem, [run EXCEPT !.node = next[run.node], !.len = @ + 1,
                             !.seen = Append(@, run.node)])

SizeReturn ==
    /\ run.op = "size"
    /\ run.pc = "exit" \/ (run.pc = "loop" /\ run.node = head)
    /\ Return("size", FALSE, run.len, Mem)
    /\ UNCHANGED head

\* q_delete_mid: front walks forward and back walks backward.
DeleteMidEnter ==
    Enter(IF head = NULL \/ list_empty(Mem, head)
          THEN At("delete_mid", "exit", NULL, NULL)
          ELSE At("delete_mid", "loop", next[head], prev[head]))

\* The while condition of q_delete_mid with front in node and back in safe.
DeleteMidContinues_crossing == run.node # run.safe

DeleteMidContinues == run.node # run.safe /\ prev[run.safe] # run.node

DeleteMidStep ==
    /\ run.op = "delete_mid" /\ run.pc = "loop"
    /\ DeleteMidContinues
    /\ Step(Mem, [run EXCEPT !.node = next[run.node], !.safe = prev[run.safe],
                             !.seen = Append(@, run.node)])

DeleteMidReturn ==
    /\ run.op = "delete_mid"
    /\ \/ /\ run.pc = "exit"
          /\ Return("delete_mid", FALSE, 0, Mem)
       \/ /\ run.pc = "loop"
          /\ ~DeleteMidContinues
          /\ Return("delete_mid", TRUE, 0,
                    q_release_element(list_del(Mem, run.node), run.node))
    /\ UNCHANGED head

\* q_swap: the for loop moves each cell behind its successor.
SwapEnter ==
    Enter(IF head = NULL \/ list_empty(Mem, head)
          THEN At("swap", "exit", NULL, NULL)
          ELSE At("swap", "loop", next[head], NULL))

\* The for condition of q_swap.
SwapContinues == next[run.node] # head /\ run.node # head

SwapStep ==
    /\ run.op = "swap" /\ run.pc = "loop"
    /\ SwapContinues
    /\ LET nxt == next[run.node]
           m1  == list_add(list_del(Mem, run.node), run.node, nxt)
       IN  Step(m1, [run EXCEPT !.node = m1.next[run.node],
                                !.seen = Append(@, run.node)])

SwapReturn ==
    /\ run.op = "swap"
    /\ run.pc = "exit" \/ (run.pc = "loop" /\ ~SwapContinues)
    /\ Return("swap", FALSE, 0, Mem)
    /\ UNCHANGED head

\* q_reverse: list_for_each_safe moves each cell to the front.
ReverseEnter ==
    Enter(IF head = NULL \/ list_empty(Mem, head)
          THEN At("reverse", "exit", NULL, NULL)
          ELSE At("reverse", "loop", next[head], next[next[head]]))

ReverseStep ==
    /\ run.op = "reverse" /\ run.pc = "loop"
    /\ run.node # head
    /\ LET m1 == list_move(Mem, run.node, head)
       IN  Step(m1, [run EXCEPT !.node = run.safe, !.safe = m1.next[run.safe],
                                !.seen = Append(@, run.node)])

ReverseReturn ==
    /\ run.op = "reverse"
    /\ run.pc = "exit" \/ (run.pc = "loop" /\ run.node = head)
    /\ Return("reverse", FALSE, 0, Mem)
    /\ UNCHANGED head

\* q_delete_dup: list_for_each_safe with ptr in node, next in safe and
\* last_dup in flag.
DeleteDupEnter ==
    Enter(IF head = NULL \/ list_empty(Mem, head)
          THEN At("delete_dup", "exit", NULL, NULL)
          ELSE At("delete_dup", "loop", next[head], next[next[head]]))

DeleteDupStep ==
    /\ run.op = "delete_dup" /\ run.pc = "loop"
    /\ run.node # head
    /\ LET ptr   == run.node
           nxt   == run.safe
           match == nxt # head /\ strcmp(value[ptr], value[nxt]) = 0
           m0    == touch(Mem, IF nxt # head THEN {ptr, nxt} ELSE {ptr})
           m1    == IF match \/ run.flag
                    THEN q_release_element(list_del(m0, ptr), ptr)
                    ELSE m0
           m2    == touch(m1, {nxt})
       IN  Step(m2, [run EXCEPT !.node = nxt, !.safe = m2.next[nxt],
                                !.flag = match, !.seen = Append(@, ptr)])

DeleteDupReturn ==
    /\ run.op = "delete_dup"
    /\ run.pc = "exit" \/ (run.pc = "loop" /\ run.node = head)
    /\ Return("delete_dup", head # NULL, 0, Mem)
    /\ UNCHANGED head

\* q_free: list_for_each_safe releases each element, then the sentinel goes.
FreeEnter ==
    Enter(IF head = NULL THEN At("free", "exit", NULL, NULL)
          ELSE IF list_empty(Mem, head) THEN At("free", "empty", NULL, NULL)
          ELSE At("free", "loop", next[head], next[next[head]]))

FreeStep ==
    /\ run.op = "free" /\ run.pc = "loop"
    /\ run.node # head
    /\ LET m1 == touch(q_release_element(Mem, run.node), {run.safe})
       IN  Step(m1, [run EXCEPT !.node = run.safe, !.safe = m1.next[run.safe],
                                !.seen = Append(@, run.node)])

FreeReturn ==
    /\ run.op = "free"
    /\ \/ /\ run.pc = "exit"
          /\ Return("free", FALSE, 0, Mem)
       \/ /\ run.pc = "empty" \/ (run.pc = "loop" /\ run.node = head)
          /\ Return("free", FALSE, 0, free(Mem, head))
    /\ head' = NULL

\* q_sort.  A frame of merge_sort holds *head in list and its locals slow,
\* fast, front and back; a frame of sorted_merge holds its arguments front
\* and back and its local result.  In a frame about to return, result is
\* what the caller receives: the value left in *head, or the return value.
Frame(fn, pc, list, front, back) ==
    [fn |-> fn, pc |-> pc, list |-> list, slow |-> NULL, fast |-> NULL,
     front |-> front, back |-> back, result |-> NULL]

Top == run.stack[Len(run.stack)]

Caller == run.stack[Len(run.stack) - 1]

\* The stack with its top frame replaced by f.
SetTop(f) == [run.stack EXCEPT ![Len(run.stack)] = f]

\* The stack after the top frame returned: the caller's frame becomes f.
PopTo(f) == [SubSeq(run.stack, 1, Len(run.stack) - 1)
                EXCEPT ![Len(run.stack) - 1] = f]

InFrame(fn, pc) ==
    /\ run.op = "sort" /\ run.pc = "merge_sort"
    /\ run.stack # <<>>
    /\ Top.fn = fn /\ Top.pc = pc

Returning == run.op = "sort" /\ run.pc = "merge_sort" /\ run.stack # <<>>
             /\ Top.pc = "return"

ReturningTo(fn, pc) ==
    /\ Returning
    /\ Len(run.stack) > 1
    /\ Caller.fn = fn /\ Caller.pc = pc

SortEnter ==
    Enter(IF head = NULL \/ list_empty(Mem, head) \/ list_is_singular(Mem, head)
          THEN At("sort", "exit", NULL, NULL)
          ELSE At("sort", "cut", NULL, NULL))

\* head->prev->next = NULL; merge_sort(&head->next);
SortCut ==
    /\ run.op = "sort" /\ run.pc = "cut"
    /\ Step([Mem EXCEPT !.next[prev[head]] = NULL],
            [run EXCEPT !.pc = "merge_sort",
                        !.stack = <<Frame("merge_sort", "enter", next[head],
                                          NULL, NULL)>>])

\* The test at the top of merge_sort, and the start of the slow/fast walk.
MergeSortEnter ==
    /\ InFrame("merge_sort", "enter")
    /\ Step(Mem,
            [run EXCEPT !.stack = SetTop(
                IF Top.list = NULL \/ next[Top.list] = NULL
                THEN [Top EXCEPT !.pc = "return", !.result = Top.list]
                ELSE [Top EXCEPT !.pc = "split", !.slow = Top.list,
                                 !.fast = next[Top.list]])])

\* The while condition of merge_sort.
SplitContinues == Top.fast # NULL /\ next[Top.fast] # NULL

MergeSortSplitStep ==
    /\ InFrame("merge_sort", "split")
    /\ SplitContinues
    /\ Step(Mem, [run EXCEPT !.stack = SetTop(
                     [Top EXCEPT !.slow = next[Top.slow],
                                 !.fast = next[next[Top.fast]]])])

\* front = *head; back = slow->next; slow->next = NULL; merge_sort(&front);
MergeSortHalve ==
    /\ InFrame("merge_sort", "split")
    /\ ~SplitContinues
    /\ Step([Mem EXCEPT !.next[Top.slow] = NULL],
            [run EXCEPT !.stack = Append(
                SetTop([Top EXCEPT !.pc = "front", !.front = Top.list,
                                   !.back = next[Top.slow]]),
                Frame("merge_sort", "enter", Top.list, NULL, NULL))])

\* merge_sort(&front) returned; merge_sort(&back);
MergeSortFrontDone ==
    /\ ReturningTo("merge_sort", "front")
    /\ Step(Mem, [run EXCEPT !.stack = Append(
                     PopTo([Caller EXCEPT !.pc = "back", !.front = Top.result]),
                     Frame("merge_sort", "enter", Caller.back, NULL, NULL))])

\* merge_sort(&back) returned; sorted_merge(front, back)
MergeSortBackDone ==
    /\ ReturningTo("merge_sort", "back")
    /\ Step(Mem, [run EXCEPT !.stack = Append(
                     PopTo([Caller EXCEPT !.pc = "merge", !.back = Top.result]),
                     Frame("sorted_merge", "enter", NULL, Caller.front,
                           Top.result))])

\* The body of sorted_merge up to its recursive call.
SortedMergeEnter ==
    /\ InFrame("sorted_merge", "enter")
    /\ LET f == Top.front
           b == Top.back
       IN  Step(Mem, [run EXCEPT !.stack =
               IF f = NULL \/ b = NULL
               THEN SetTop([Top EXCEPT !.pc = "return",
                                       !.result = IF f # NULL THEN f ELSE b])
               ELSE IF strcmp(value[f], value[b]) > 0
               THEN Append(SetTop([Top EXCEPT !.pc = "rest", !.result = b]),
                           Frame("sorted_merge", "enter", NULL, f, next[b]))
               ELSE Append(SetTop([Top EXCEPT !.pc = "rest", !.result = f]),
                           Frame("sorted_merge", "enter", NULL, next[f], b))])

\* result->next = sorted_merge(...); return result;
SortedMergeRestDone ==
    /\ ReturningTo("sorted_merge", "rest")
    /\ Step([Mem EXCEPT !.next[Caller.result] = Top.result],
            [run EXCEPT !.stack = PopTo([Caller EXCEPT !.pc = "return"])])

\* *head = sorted_merge(front, back); in merge_sort
MergeSortMerged ==
    /\ ReturningTo("merge_sort", "merge")
    /\ Step(Mem, [run EXCEPT !.stack = PopTo(
                     [Caller EXCEPT !.pc = "return", !.list = Top.result,
                                    !.result = Top.result])])

\* merge_sort(&head->next) returned into q_sort; tmp = head;
SortMerged ==
    /\ Returning
    /\ Len(run.stack) = 1
    /\ Step([Mem EXCEPT !.next[head] = Top.result],
            [run EXCEPT !.pc = "rethread", !.node = head, !.stack = <<>>])

\* The while loop of q_sort with tmp in node.
SortRethreadStep ==
    /\ run.op = "sort" /\ run.pc = "rethread"
    /\ next[run.node] # NULL
    /\ Step([Mem EXCEPT !.prev[next[run.node]] = run.node],
            [run EXCEPT !.node = next[run.node], !.seen = Append(@, run.node)])

\* tmp->next = head; head->prev = tmp;
SortReturn ==
    /\ run.op = "sort"
    /\ \/ /\ run.pc = "exit"
          /\ Return("sort", FALSE, 0, Mem)
       \/ /\ run.pc = "rethread"
          /\ next[run.node] = NULL
          /\ Return("sort", FALSE, 0,
                    [Mem EXCEPT !.next[run.node] = head, !.prev[head] = run.node])
    /\ UNCHANGED head

\* The steps of a call in progress.
Continue ==
    \/ SizeStep \/ SizeReturn
    \/ DeleteMidStep \/ DeleteMidReturn
    \/ SwapStep \/ SwapReturn
    \/ ReverseStep \/ ReverseReturn
    \/ DeleteDupStep \/ DeleteDupReturn
    \/ FreeStep \/ FreeReturn
    \/ SortCut \/ MergeSortEnter \/ MergeSortSplitStep \/ MergeSortHalve
    \/ MergeSortFrontDone \/ MergeSortBackDone \/ SortedMergeEnter
    \/ SortedMergeRestDone \/ MergeSortMerged \/ SortMerged
    \/ SortRethreadStep \/ SortReturn

\* One of the calls is entered on the ring.
EnterCall ==
    \/ SizeEnter
    \/ DeleteMidEnter
    \/ SwapEnter
    \/ ReverseEnter
    \/ DeleteDupEnter
    \/ FreeEnter
    \/ SortEnter

\* Every ring of up to MaxLen elements, and no queue at all.
InitSteps == InitOps \/ InitHeap(MaxLen)

NextSteps == EnterCall \/ Continue

\* The program has one thread: a call that was entered keeps running.  Every
\* step of a call changes run, its position or its locals.
SpecSteps == InitSteps /\ [][NextSteps]_vars /\ WF_run(Continue)

\* No cell occurs twice in s.
NoRepeats(s) == \A i, j \in 1..Len(s) : s[i] = s[j] => i = j

\* s is the beginning of t.
IsPrefix(s, t) == Len(s) <= Len(t) /\ s = SubSeq(t, 1, Len(s))

\* While a call runs: front and back of delete_mid stay on elements and
\* front never passes back; the node of swap is an element or the sentinel;
\* the traversals of size, reverse, delete_dup and free have visited the
\* elements before the present one, in ring order, once each; the stack of
\* sort holds at most two frames more than the ring has elements.
StepsSafe ==
    /\ NoRepeats(run.seen)
    /\ IF run.op = "delete_mid" /\ run.pc = "loop"
       THEN /\ run.node \in Range(PreOrder)
            /\ run.safe \in Range(PreOrder)
            /\ IndexIn(PreOrder, run.node) <= IndexIn(PreOrder, run.safe)
       ELSE TRUE
    /\ IF run.op = "swap" /\ run.pc = "loop"
       THEN run.node \in Range(PreOrder) \cup {head}
       ELSE TRUE
    /\ IF run.op \in {"size", "reverse", "delete_dup", "free"} /\ run.pc = "loop"
       THEN IF run.node = head THEN run.seen = PreOrder
            ELSE IsPrefix(Append(run.seen, run.node), PreOrder)
       ELSE TRUE
    /\ IF run.op = "sort" THEN Len(run.stack) <= Len(PreOrder) + 2 ELSE TRUE

\* The call named by the last return, made as a whole: its heap, and its
\* result as the step-by-step call leaves it in flag and len.
Whole ==
    LET m == last.pre.m
        h == last.pre.head
        void(after) == [flag |-> FALSE, len |-> 0, m |-> after]
        bool(r) == [flag |-> r.ret, len |-> 0, m |-> r.m]
    IN  CASE last.op = "size" -> [flag |-> FALSE, len |-> q_size(m, h), m |-> m]
          [] last.op = "delete_mid" -> bool(q_delete_mid(m, h))
          [] last.op = "delete_dup" -> bool(q_delete_dup(m, h))
          [] last.op = "swap"       -> void(q_swap(m, h))
          [] last.op = "reverse"    -> void(q_reverse(m, h))
          [] last.op = "sort"       -> void(q_sort(m, h))
          [] last.op = "free"       -> void(q_free(m, h))

\* A call followed step by step returns what the call does as a whole, and
\* the traversals of size, reverse, delete_dup and free have visited every
\* element of the ring once.
StepsAgree ==
    IF last.op \in {"init", "call"} THEN TRUE
    ELSE /\ run.flag = Whole.flag
         /\ run.len = Whole.len
         /\ Mem = Whole.m
         /\ head = (IF last.op = "free" THEN NULL ELSE last.pre.head)
         /\ IF last.op \in {"size", "reverse", "delete_dup", "free"}
            THEN last.arg = PreOrder
            ELSE TRUE

\* C19: every call terminates on every ring: a call that was entered
\* returns, the two pointers of delete_mid never pass each other or step on
\* the sentinel, the loop of swap stays on the ring until it reaches the
\* sentinel, the traversals of reverse, delete_dup and free visit each
\* element once, and the recursion and the re-threading walk of sort finish.
C19_Terminates ==
    /\ [](StepsSafe /\ StepsAgree)
    /\ (run.op # "idle") ~> (run.op = "idle")

\* C19 witness: sort returned after its recursion and its re-threading walk
\* over a ring of four elements that it rearranged.
C19_Witness ==
    /\ run.op = "idle"
    /\ last.op = "sort"
    /\ Len(PreOrder) = 4
    /\ Len(last.arg) = 4
    /\ CurOrder # PreOrder
    /\ WellFormed(Mem, head, held)

=============================================================================
